---- MODULE Spec2Model ----
(***************************************************************************)
(* Model of packages/sql-validator/src/lib.rs: the write-once completion   *)
(* cache (COMPLETION_CACHE), its builder, the context detector, the        *)
(* completion dispatcher and format_sql, called one at a time or by        *)
(* concurrent threads.                                                     *)
(*                                                                         *)
(* Representation.                                                         *)
(*  - A Rust String is a sequence of fragments (TLA+ strings); format! and *)
(*    join are sequence concatenation.  Names are sequences of one-letter  *)
(*    fragments.  Option<T> is a sequence of length 0 (None) or 1 (Some).  *)
(*  - An SQL text is the sequence of its lexemes, the segmentation the     *)
(*    external tokenizer produces; cursor_offset and sql.len() count       *)
(*    lexemes.  Blanks between two words may be left out of a text: the    *)
(*    detector filters whitespace tokens before it looks at anything, and  *)
(*    the one place that reads raw text (the remainder after the cursor)   *)
(*    is modelled with explicit " " lexemes.                               *)
(*  - A panic (index out of range) is the outcome "Panic".                 *)
(***************************************************************************)
EXTENDS Naturals, Sequences, FiniteSets, TLC

VARIABLES
    COMPLETION_CACHE,   \* OnceLock<CompletionCache>: <<>> or <<cache>>
    op,                 \* the function called last
    json,               \* its payload, when it is init_completion_data
    sql,                \* the text the host passes to get_completions / detect_context
    cursor_offset,      \* the offset passed, when op is one of these two
    context,            \* SqlContext computed by the last call ("NotRun" if none was)
    ret,                \* value returned by the last call
    calls               \* the calls in progress on concurrent threads: thread -> call
                        \* (empty when the host makes one call at a time)

vars == <<COMPLETION_CACHE, op, json, sql, cursor_offset, context, ret, calls>>

(***************************************************************************)
(* Bounds of the model.                                                    *)
(***************************************************************************)
MaxLen == 5         \* longest text given to detect_context, in lexemes
MaxOver == 1        \* how far cursor_offset may lie beyond the end of the text
MaxCallLen == 3     \* longest text given to get_completions, in lexemes
MaxFuncs == 3       \* most function records in a catalog of the alias family
MaxPerCategory == 2 \* most records per category in a catalog of the block family
MaxThreads == 3     \* threads that call the exported functions concurrently

(***************************************************************************)
(* Small helpers over sequences.                                           *)
(***************************************************************************)
SeqsUpTo(S, n) == UNION {[1..k -> S] : k \in 0..n}

Last(s) == s[Len(s)]

(***************************************************************************)
(* The external tokenizer at its boundary: one token per lexeme.  The      *)
(* lexeme "'" stands for a string literal that is not closed before the    *)
(* cursor, on which tokenize() returns Err.                                *)
(***************************************************************************)
TokenOf(lexeme) ==
    CASE lexeme = " " -> [kind |-> "Whitespace", value |-> lexeme]
      [] lexeme = "=" -> [kind |-> "Eq", value |-> lexeme]
      [] lexeme = "(" -> [kind |-> "LParen", value |-> lexeme]
      [] lexeme = ")" -> [kind |-> "RParen", value |-> lexeme]
      [] lexeme = "," -> [kind |-> "Comma", value |-> lexeme]
      [] OTHER -> [kind |-> "Word", value |-> lexeme]

tokenize(text) ==
    IF \E k \in 1..Len(text) : text[k] = "'"
    THEN [ok |-> FALSE, tokens |-> <<>>]
    ELSE [ok |-> TRUE, tokens |-> [k \in 1..Len(text) |-> TokenOf(text[k])]]

\* the upper-case letter of each lower-case ASCII letter
AsciiUpper ==
    [a |-> "A", b |-> "B", c |-> "C", d |-> "D", e |-> "E", f |-> "F", g |-> "G",
     h |-> "H", i |-> "I", j |-> "J", k |-> "K", l |-> "L", m |-> "M", n |-> "N",
     o |-> "O", p |-> "P", q |-> "Q", r |-> "R", s |-> "S", t |-> "T", u |-> "U",
     v |-> "V", w |-> "W", x |-> "X", y |-> "Y", z |-> "Z"]

\* str::to_ascii_uppercase on the words of the model's vocabularies and on
\* single letters
to_ascii_uppercase(w) ==
    CASE w = "select" -> "SELECT"
      [] w = "from" -> "FROM"
      [] w = "where" -> "WHERE"
      [] w = "engine" -> "ENGINE"
      [] w = "format" -> "FORMAT"
      [] w = "table" -> "TABLE"
      [] w = "by" -> "BY"
      [] w \in DOMAIN AsciiUpper -> AsciiUpper[w]
      [] OTHER -> w

eq_ignore_ascii_case(a, b) == to_ascii_uppercase(a) = to_ascii_uppercase(b)

is_keyword_token(token, keyword) ==
    token.kind = "Word" /\ eq_ignore_ascii_case(token.value, keyword)

has_clause_after(tokens, keywords) ==
    \E k \in 1..Len(tokens) : \E kw \in keywords : is_keyword_token(tokens[k], kw)

\* the slice &significant_tokens[i + 1..], with i the 1-based index here
TokensAfter(tokens, i) == SubSeq(tokens, i + 1, Len(tokens))

(***************************************************************************)
(* is_in_create_table_columns: the backward loop for TABLE then CREATE,    *)
(* then the forward loop tracking paren_depth.                             *)
(***************************************************************************)
RECURSIVE LookBackForCreate(_, _, _)
\* j runs from paren_index - 1 down to the first token; TRUE iff found_create
LookBackForCreate(tokens, j, found_table) ==
    IF j < 1 THEN FALSE
    ELSE IF is_keyword_token(tokens[j], "TABLE")
         THEN LookBackForCreate(tokens, j - 1, TRUE)
         ELSE IF is_keyword_token(tokens[j], "CREATE") /\ found_table
              THEN TRUE
              ELSE LookBackForCreate(tokens, j - 1, found_table)

RECURSIVE ParenStaysOpen(_, _, _)
\* k runs over tokens[paren_index + 1..]; FALSE as soon as paren_depth reaches 0
ParenStaysOpen(tokens, k, paren_depth) ==
    IF k > Len(tokens) THEN paren_depth > 0
    ELSE IF tokens[k].kind = "LParen"
         THEN ParenStaysOpen(tokens, k + 1, paren_depth + 1)
         ELSE IF tokens[k].kind = "RParen"
              THEN IF paren_depth - 1 = 0
                   THEN FALSE
                   ELSE ParenStaysOpen(tokens, k + 1, paren_depth - 1)
              ELSE ParenStaysOpen(tokens, k + 1, paren_depth)

is_in_create_table_columns(tokens, paren_index) ==
    /\ LookBackForCreate(tokens, paren_index - 1, FALSE)
    /\ ParenStaysOpen(tokens, paren_index + 1, 1)

(***************************************************************************)
(* detect_context.                                                         *)
(***************************************************************************)
\* mutants: a guard set that misses a keyword
WhereGuard_without_order == {"GROUP", "LIMIT", "FORMAT", "SETTINGS"}
SelectGuard_empty == {}

WhereGuard == {"ORDER", "GROUP", "LIMIT", "FORMAT", "SETTINGS"}
OrderByGuard == {"LIMIT", "FORMAT", "SETTINGS", "HAVING", "WHERE"}
FromGuard == {"WHERE", "GROUP", "ORDER", "LIMIT", "FORMAT", "SETTINGS"}
SelectGuard == {"FROM"}

\* the rules tried at position i of the backward scan; "" when none returns
ClauseAt(tokens, i) ==
    LET token == tokens[i]
        after == TokensAfter(tokens, i)
    IN  IF /\ (is_keyword_token(token, "WHERE") \/ is_keyword_token(token, "HAVING"))
           /\ ~has_clause_after(after, WhereGuard)
        THEN "WhereClause"
        ELSE IF /\ is_keyword_token(token, "BY")
                /\ i > 1
                /\ (\/ is_keyword_token(tokens[i - 1], "ORDER")
                    \/ is_keyword_token(tokens[i - 1], "GROUP"))
                /\ ~has_clause_after(after, OrderByGuard)
        THEN "OrderByClause"
        ELSE IF /\ (is_keyword_token(token, "FROM") \/ is_keyword_token(token, "JOIN"))
                /\ ~has_clause_after(after, FromGuard)
        THEN "FromClause"
        ELSE IF /\ is_keyword_token(token, "SELECT")
                /\ ~has_clause_after(after, SelectGuard)
        THEN "SelectClause"
        ELSE IF /\ token.kind = "LParen"
                /\ i >= 3
                /\ is_in_create_table_columns(tokens, i)
        THEN "ColumnDefinition"
        ELSE ""

RECURSIVE ScanBackwards(_, _)
\* for i in (0..len).rev()
ScanBackwards(tokens, i) ==
    IF i < 1 THEN "Default"
    ELSE IF ClauseAt(tokens, i) # ""
         THEN ClauseAt(tokens, i)
         ELSE ScanBackwards(tokens, i - 1)

RECURSIVE trim_start(_)
trim_start(text) ==
    IF text # <<>> /\ Head(text) = " " THEN trim_start(Tail(text)) ELSE text

starts_with(text, lexeme) == text # <<>> /\ Head(text) = lexeme

\* mutant: the backward scan is consulted before the FORMAT and SETTINGS rules
AfterEngineRules_scan_first(significant_tokens) ==
    LET len == Len(significant_tokens)
        scanned == ScanBackwards(significant_tokens, len)
    IN  IF scanned # "Default" THEN scanned
        ELSE IF is_keyword_token(significant_tokens[len], "FORMAT") THEN "Format"
        ELSE IF is_keyword_token(significant_tokens[len], "SETTINGS") THEN "Settings"
        ELSE "Default"

\* rules d, e and the backward scan (lines 526-590)
AfterEngineRules(significant_tokens) ==
    LET len == Len(significant_tokens)
    IN  IF is_keyword_token(significant_tokens[len], "FORMAT") THEN "Format"
        ELSE IF is_keyword_token(significant_tokens[len], "SETTINGS") THEN "Settings"
        ELSE ScanBackwards(significant_tokens, len)

\* mutant: the ENGINE = <value> rule repeats the test of the ENGINE = rule
engine_assignment_without_value(significant_tokens) ==
    LET len == Len(significant_tokens)
    IN  /\ len >= 2
        /\ significant_tokens[len].kind = "Eq"
        /\ is_keyword_token(significant_tokens[len - 1], "ENGINE")

\* rules a and b (lines 502-516): ENGINE =, and ENGINE = followed by one token
engine_assignment(significant_tokens) ==
    LET len == Len(significant_tokens)
    IN  \/ /\ len >= 2
           /\ significant_tokens[len].kind = "Eq"
           /\ is_keyword_token(significant_tokens[len - 1], "ENGINE")
        \/ /\ len >= 3
           /\ significant_tokens[len - 1].kind = "Eq"
           /\ is_keyword_token(significant_tokens[len - 2], "ENGINE")

detect_context(text, offset) ==
    LET sql_before_cursor ==
            IF offset <= Len(text) THEN SubSeq(text, 1, offset) ELSE text
        tokenized == tokenize(sql_before_cursor)
        significant_tokens ==
            SelectSeq(tokenized.tokens, LAMBDA t : t.kind # "Whitespace")
        len == Len(significant_tokens)
    IN  IF ~tokenized.ok THEN "Default"
        ELSE IF significant_tokens = <<>> THEN "Default"
        ELSE IF engine_assignment(significant_tokens) THEN "Engine"
        ELSE IF len >= 1 /\ is_keyword_token(significant_tokens[len], "ENGINE")
        THEN \* &sql[cursor_offset..] panics when cursor_offset > sql.len()
             IF offset > Len(text) THEN "Panic"
             ELSE IF starts_with(trim_start(SubSeq(text, offset + 1, Len(text))), "=")
                  THEN "Engine"
                  ELSE AfterEngineRules(significant_tokens)
        ELSE AfterEngineRules(significant_tokens)

(***************************************************************************)
(* Strings of the cache builder.                                           *)
(***************************************************************************)
None == <<>>
Some(x) == <<x>>

RECURSIVE trim_end(_)
trim_end(s) ==
    IF s # <<>> /\ Last(s) = " " THEN trim_end(SubSeq(s, 1, Len(s) - 1)) ELSE s

trim(s) == trim_end(trim_start(s))

RECURSIVE join(_, _)
\* Vec<String>::join(sep)
join(parts, sep) ==
    IF parts = <<>> THEN <<>>
    ELSE IF Len(parts) = 1 THEN parts[1]
    ELSE parts[1] \o sep \o join(Tail(parts), sep)

\* str::eq_ignore_ascii_case on names, letter by letter
name_eq_ignore_ascii_case(a, b) ==
    /\ Len(a) = Len(b)
    /\ \A k \in 1..Len(a) : to_ascii_uppercase(a[k]) = to_ascii_uppercase(b[k])

SORT_PRIORITY_KEYWORD == <<"0", "_">>
SORT_PRIORITY_FUNCTION == <<"1", "_">>
SORT_PRIORITY_DATA_TYPE == <<"2", "_">>
SORT_PRIORITY_TABLE_ENGINE == <<"3", "_">>
SORT_PRIORITY_FORMAT == <<"4", "_">>
SORT_PRIORITY_TABLE_FUNCTION == <<"5", "_">>
SORT_PRIORITY_SETTING == <<"6", "_">>
SORT_PRIORITY_ALIAS == <<"9", "_">>

\* the grave accent U+0060, which a TLA+ string literal cannot hold
Backtick == "U+0060"

Markdown(value) == [kind |-> <<"markdown">>, value |-> value]

build_function_documentation(func) ==
    LET parts ==
            (IF func.syntax # <<>>
             THEN << <<"**Syntax:** ", Backtick>> \o func.syntax \o <<Backtick>> >> ELSE <<>>)
            \o (IF func.description # <<>>
                THEN << trim(func.description) >> ELSE <<>>)
            \o (IF func.arguments # <<>>
                THEN << <<"**Arguments:**\n">> \o trim(func.arguments) >> ELSE <<>>)
            \o (IF func.returned_value # <<>>
                THEN << <<"**Returns:**\n">> \o trim(func.returned_value) >> ELSE <<>>)
            \o (IF func.categories # <<>>
                THEN << <<"**Category:** ">> \o func.categories >> ELSE <<>>)
    IN  IF parts = <<>> THEN None ELSE Some(Markdown(join(parts, <<"\n\n">>)))

\* all_functions.iter().find(...): the first match, as an Option
FindFunction(all_functions, alias_to) ==
    LET hits == {k \in 1..Len(all_functions) :
                    name_eq_ignore_ascii_case(all_functions[k].name, alias_to)}
    IN  IF hits = {} THEN None
        ELSE Some(all_functions[CHOOSE k \in hits : \A h \in hits : k <= h])

build_function_completion(func, all_functions) ==
    LET kind == IF func.is_aggregate THEN "AggregateFunction" ELSE "Function"
        detail ==
            IF func.alias_to # None
            THEN Some(<<"(alias for ">> \o func.alias_to[1] \o <<")">>)
            ELSE IF func.is_aggregate
                 THEN Some(<<"(aggregate function)">>)
                 ELSE Some(<<"(function)">>)
        sort_text ==
            IF func.alias_to # None
            THEN SORT_PRIORITY_ALIAS \o func.name
            ELSE SORT_PRIORITY_FUNCTION \o func.name
        documentation ==
            IF func.alias_to # None
            THEN LET alias_to == func.alias_to[1]
                     target == FindFunction(all_functions, alias_to)
                     header == <<"**">> \o func.name \o <<"** _(", "alias for", " ", Backtick>>
                                   \o alias_to \o <<Backtick, ")_">>
                     target_doc ==
                         IF target # None
                         THEN build_function_documentation(target[1])
                         ELSE None
                     parts ==
                         <<header>>
                         \o (IF target_doc # None THEN <<target_doc[1].value>> ELSE <<>>)
                 IN  Some(Markdown(join(parts, <<"\n\n">>)))
            ELSE build_function_documentation(func)
    IN  [label |-> func.name, kind |-> kind, detail |-> detail,
         documentation |-> documentation, has_params |-> TRUE,
         sort_text |-> Some(sort_text)]

build_keyword_completion(keyword) ==
    [label |-> keyword, kind |-> "Keyword", detail |-> Some(<<"(keyword)">>),
     documentation |-> None, has_params |-> FALSE,
     sort_text |-> Some(SORT_PRIORITY_KEYWORD \o keyword)]

\* mutant: an alias data type is given the band of the data types
build_data_type_completion_one_band(dt) ==
    [label |-> dt.name, kind |-> "DataType",
     detail |-> IF dt.alias_to # None
                THEN Some(<<"(alias for ">> \o dt.alias_to[1] \o <<")">>)
                ELSE Some(<<"(data type)">>),
     documentation |-> None, has_params |-> FALSE,
     sort_text |-> Some(SORT_PRIORITY_DATA_TYPE \o dt.name)]

build_data_type_completion(dt) ==
    [label |-> dt.name, kind |-> "DataType",
     detail |-> IF dt.alias_to # None
                THEN Some(<<"(alias for ">> \o dt.alias_to[1] \o <<")">>)
                ELSE Some(<<"(data type)">>),
     documentation |-> None, has_params |-> FALSE,
     sort_text |-> IF dt.alias_to # None
                   THEN Some(SORT_PRIORITY_ALIAS \o dt.name)
                   ELSE Some(SORT_PRIORITY_DATA_TYPE \o dt.name)]

build_table_engine_completion(engine) ==
    [label |-> engine.name, kind |-> "TableEngine",
     detail |-> Some(<<"(table engine)">>),
     documentation |-> None, has_params |-> FALSE,
     sort_text |-> Some(SORT_PRIORITY_TABLE_ENGINE \o engine.name)]

build_format_completion(format) ==
    LET detail ==
            IF format.is_input /\ format.is_output THEN <<"(format: input/output)">>
            ELSE IF format.is_input THEN <<"(format: input only)">>
            ELSE IF format.is_output THEN <<"(format: output only)">>
            ELSE <<"(format)">>
    IN  [label |-> format.name, kind |-> "Format", detail |-> Some(detail),
         documentation |-> None, has_params |-> FALSE,
         sort_text |-> Some(SORT_PRIORITY_FORMAT \o format.name)]

build_table_function_completion(tf) ==
    [label |-> tf.name, kind |-> "TableFunction",
     detail |-> Some(<<"(table function)">>),
     documentation |-> IF tf.description = <<>> THEN None
                       ELSE Some(Markdown(trim(tf.description))),
     has_params |-> TRUE,
     sort_text |-> Some(SORT_PRIORITY_TABLE_FUNCTION \o tf.name)]

build_setting_completion(setting, is_merge_tree) ==
    [label |-> setting.name, kind |-> "Setting",
     detail |-> IF is_merge_tree
                THEN Some(<<"(MergeTree setting: ">> \o setting.setting_type \o <<")">>)
                ELSE Some(<<"(setting: ">> \o setting.setting_type \o <<")">>),
     documentation |-> IF setting.description = <<>> THEN None
                       ELSE Some(Markdown(trim(setting.description))),
     has_params |-> FALSE,
     sort_text |-> Some(SORT_PRIORITY_SETTING \o setting.name)]

logical_ops ==
    << <<"AND">>, <<"OR">>, <<"NOT">>, <<"IN">>, <<"BETWEEN">>, <<"LIKE">>,
       <<"IS NULL">>, <<"IS NOT NULL">> >>

order_keywords == << <<"ASC">>, <<"DESC">>, <<"NULLS FIRST">>, <<"NULLS LAST">> >>

\* mutant: the loop over the logical operators pushes to "all" as the other loops do
build_completion_cache_operators_in_all(data) ==
    LET functions ==
            [k \in 1..Len(data.functions) |->
                build_function_completion(data.functions[k], data.functions)]
        keywords ==
            [k \in 1..Len(data.keywords) |-> build_keyword_completion(data.keywords[k])]
        data_types ==
            [k \in 1..Len(data.data_types) |->
                build_data_type_completion(data.data_types[k])]
        table_engines ==
            [k \in 1..Len(data.table_engines) |->
                build_table_engine_completion(data.table_engines[k])]
        formats ==
            [k \in 1..Len(data.formats) |-> build_format_completion(data.formats[k])]
        table_functions ==
            [k \in 1..Len(data.table_functions) |->
                build_table_function_completion(data.table_functions[k])]
        settings ==
            [k \in 1..Len(data.settings) |->
                build_setting_completion(data.settings[k], FALSE)]
        merge_tree_settings ==
            [k \in 1..Len(data.merge_tree_settings) |->
                build_setting_completion(data.merge_tree_settings[k], TRUE)]
    IN  [all |-> functions \o keywords \o data_types \o table_engines \o formats
                     \o table_functions \o settings \o merge_tree_settings
                     \o [k \in 1..Len(logical_ops) |->
                            build_keyword_completion(logical_ops[k])],
         functions |-> functions,
         keywords |-> keywords,
         data_types |-> data_types,
         table_engines |-> table_engines,
         formats |-> formats,
         table_functions |-> table_functions,
         settings |-> settings \o merge_tree_settings,
         logical_operators |->
            [k \in 1..Len(logical_ops) |-> build_keyword_completion(logical_ops[k])],
         order_by_keywords |->
            [k \in 1..Len(order_keywords) |-> build_keyword_completion(order_keywords[k])]]

\* each loop builds one item per record, in order: category.push(item.clone()),
\* all.push(item)
build_completion_cache(data) ==
    LET functions ==
            [k \in 1..Len(data.functions) |->
                build_function_completion(data.functions[k], data.functions)]
        keywords ==
            [k \in 1..Len(data.keywords) |-> build_keyword_completion(data.keywords[k])]
        data_types ==
            [k \in 1..Len(data.data_types) |->
                build_data_type_completion(data.data_types[k])]
        table_engines ==
            [k \in 1..Len(data.table_engines) |->
                build_table_engine_completion(data.table_engines[k])]
        formats ==
            [k \in 1..Len(data.formats) |-> build_format_completion(data.formats[k])]
        table_functions ==
            [k \in 1..Len(data.table_functions) |->
                build_table_function_completion(data.table_functions[k])]
        settings ==
            [k \in 1..Len(data.settings) |->
                build_setting_completion(data.settings[k], FALSE)]
        merge_tree_settings ==
            [k \in 1..Len(data.merge_tree_settings) |->
                build_setting_completion(data.merge_tree_settings[k], TRUE)]
    IN  [all |-> functions \o keywords \o data_types \o table_engines \o formats
                     \o table_functions \o settings \o merge_tree_settings,
         functions |-> functions,
         keywords |-> keywords,
         data_types |-> data_types,
         table_engines |-> table_engines,
         formats |-> formats,
         table_functions |-> table_functions,
         settings |-> settings \o merge_tree_settings,
         logical_operators |->
            [k \in 1..Len(logical_ops) |-> build_keyword_completion(logical_ops[k])],
         order_by_keywords |->
            [k \in 1..Len(order_keywords) |-> build_keyword_completion(order_keywords[k])]]

(***************************************************************************)
(* Catalogs and payloads given to init_completion_data.  Decoding is the   *)
(* external serde_json: a payload either decodes to a ClickHouseData or is *)
(* malformed.                                                              *)
(***************************************************************************)
Function(name, is_aggregate, alias_to, syntax, description) ==
    [name |-> name, is_aggregate |-> is_aggregate, alias_to |-> alias_to,
     syntax |-> syntax, description |-> description, arguments |-> <<>>,
     returned_value |-> <<>>, categories |-> <<>>]

Catalog1 ==
    [functions |->
        << Function(<<"n", "o", "w">>, FALSE, None, <<"now()">>, <<" ", "Current time", " ">>),
           Function(<<"s", "u", "m">>, TRUE, None, <<>>, <<>>),
           Function(<<"N", "O", "W">>, FALSE, Some(<<"N", "o", "w">>), <<>>, <<>>) >>,
     keywords |-> << <<"S", "E", "L", "E", "C", "T">>, <<"A", "S">> >>,
     data_types |->
        << [name |-> <<"I", "n", "t">>, alias_to |-> None],
           [name |-> <<"I", "N", "T">>, alias_to |-> Some(<<"I", "n", "t">>)] >>,
     table_engines |-> << [name |-> <<"L", "o", "g">>] >>,
     formats |->
        << [name |-> <<"C", "S", "V">>, is_input |-> TRUE, is_output |-> TRUE],
           [name |-> <<"X", "M", "L">>, is_input |-> FALSE, is_output |-> TRUE] >>,
     table_functions |-> << [name |-> <<"u", "r", "l">>, description |-> <<"Reads a URL">>] >>,
     aggregate_combinators |-> << <<"I", "f">> >>,
     settings |->
        << [name |-> <<"m", "t">>, setting_type |-> <<"UInt64">>,
            description |-> <<"Threads", " ">>] >>,
     merge_tree_settings |->
        << [name |-> <<"i", "g">>, setting_type |-> <<"UInt64">>, description |-> <<>>] >>]

Catalog2 ==
    [functions |-> << Function(<<"a", "b", "s">>, FALSE, None, <<>>, <<"Absolute value">>) >>,
     keywords |-> << <<"F", "R", "O", "M">> >>,
     data_types |-> << [name |-> <<"D", "a", "t", "e">>, alias_to |-> None] >>,
     table_engines |-> << [name |-> <<"M", "e", "m">>], [name |-> <<"L", "o", "g">>] >>,
     formats |-> << [name |-> <<"T", "S", "V">>, is_input |-> TRUE, is_output |-> FALSE] >>,
     table_functions |-> <<>>,
     aggregate_combinators |-> <<>>,
     settings |-> <<>>,
     merge_tree_settings |->
        << [name |-> <<"t", "t", "l">>, setting_type |-> <<"Bool">>, description |-> <<>>] >>]

EmptyCatalog ==
    [functions |-> <<>>, keywords |-> <<>>, data_types |-> <<>>, table_engines |-> <<>>,
     formats |-> <<>>, table_functions |-> <<>>, aggregate_combinators |-> <<>>,
     settings |-> <<>>, merge_tree_settings |-> <<>>]

Catalogs == {Catalog1, Catalog2, EmptyCatalog}

Payloads ==
    {[decodable |-> TRUE, data |-> c, e |-> <<>>] : c \in Catalogs}
    \cup {[decodable |-> FALSE, data |-> EmptyCatalog,
           e |-> <<"expected value at line 1 column 1">>]}

\* serde_json::from_str::<ClickHouseData>(json)
from_str(payload) ==
    IF payload.decodable
    THEN [ok |-> TRUE, data |-> payload.data, e |-> <<>>]
    ELSE [ok |-> FALSE, data |-> EmptyCatalog, e |-> payload.e]

(***************************************************************************)
(* The exported functions, as functions of the cell and their arguments.   *)
(***************************************************************************)
InitResult(success, error) == [success |-> success, error |-> error]

AlreadyInitialized == <<"Completion data already initialized">>

\* mutant: a cell that takes every value offered (no write-once guard)
OnceLockSet_overwrite(cell, value) == [cell |-> <<value>>, ok |-> TRUE]

\* OnceLock::set: stores the value only in an empty cell
OnceLockSet(cell, value) ==
    IF cell = <<>>
    THEN [cell |-> <<value>>, ok |-> TRUE]
    ELSE [cell |-> cell, ok |-> FALSE]

\* mutant: the cell is overwritten by every decodable payload (last writer wins)
init_completion_data_replace(cell, payload) ==
    LET decoded == from_str(payload)
    IN  IF decoded.ok
        THEN [cell |-> <<build_completion_cache(decoded.data)>>,
              result |-> InitResult(TRUE, None)]
        ELSE [cell |-> cell,
              result |-> InitResult(FALSE,
                            Some(<<"Failed to parse ClickHouse data: ">> \o decoded.e))]

\* mutant: a payload that fails to decode installs the cache of a default catalog
init_completion_data_default_on_error(cell, payload) ==
    LET decoded == from_str(payload)
        set == OnceLockSet(cell, build_completion_cache(decoded.data))
    IN  IF decoded.ok
        THEN IF set.ok
             THEN [cell |-> set.cell, result |-> InitResult(TRUE, None)]
             ELSE [cell |-> set.cell,
                   result |-> InitResult(FALSE, Some(AlreadyInitialized))]
        ELSE [cell |-> set.cell,
              result |-> InitResult(FALSE,
                            Some(<<"Failed to parse ClickHouse data: ">> \o decoded.e))]

\* the cell after the call and the InitResult returned
init_completion_data(cell, payload) ==
    LET decoded == from_str(payload)
        set == OnceLockSet(cell, build_completion_cache(decoded.data))
    IN  IF decoded.ok
        THEN IF set.ok
             THEN [cell |-> set.cell, result |-> InitResult(TRUE, None)]
             ELSE [cell |-> set.cell,
                   result |-> InitResult(FALSE, Some(AlreadyInitialized))]
        ELSE [cell |-> cell,
              result |-> InitResult(FALSE,
                            Some(<<"Failed to parse ClickHouse data: ">> \o decoded.e))]

Returned(value) == [outcome |-> "Returned", value |-> value]
Panicked == [outcome |-> "Panicked", value |-> <<>>]

\* the match on the context (lines 683-707); a panic of detect_context propagates
select_items_functions_last(cache, ctx) ==
    CASE ctx = "Panic" -> Panicked
      [] ctx = "Engine" -> Returned(cache.table_engines)
      [] ctx = "Format" -> Returned(cache.formats)
      [] ctx = "WhereClause" -> Returned(cache.logical_operators \o cache.functions)
      [] ctx = "OrderByClause" -> Returned(cache.order_by_keywords \o cache.functions)
      [] ctx = "SelectClause" -> Returned(cache.functions)
      [] ctx = "FromClause" -> Returned(cache.table_functions)
      [] ctx = "ColumnDefinition" -> Returned(cache.data_types)
      [] ctx = "Settings" -> Returned(cache.settings)
      [] ctx = "Default" -> Returned(cache.all)

select_items(cache, ctx) ==
    CASE ctx = "Panic" -> Panicked
      [] ctx = "Engine" -> Returned(cache.table_engines)
      [] ctx = "Format" -> Returned(cache.formats)
      [] ctx = "WhereClause" -> Returned(cache.functions \o cache.logical_operators)
      [] ctx = "OrderByClause" -> Returned(cache.functions \o cache.order_by_keywords)
      [] ctx = "SelectClause" -> Returned(cache.functions)
      [] ctx = "FromClause" -> Returned(cache.table_functions)
      [] ctx = "ColumnDefinition" -> Returned(cache.data_types)
      [] ctx = "Settings" -> Returned(cache.settings)
      [] ctx = "Default" -> Returned(cache.all)

\* mutant: context detection runs before the cache is looked up
get_completions_detect_first(cell, text, offset) ==
    LET ctx == detect_context(text, offset)
    IN  IF ctx = "Panic" THEN [context |-> ctx, result |-> Panicked]
        ELSE IF cell = <<>> THEN [context |-> ctx, result |-> Returned(<<>>)]
        ELSE [context |-> ctx, result |-> select_items(cell[1], ctx)]

\* the context detected ("NotRun" when detect_context is not called) and the outcome
get_completions(cell, text, offset) ==
    IF cell = <<>>
    THEN [context |-> "NotRun", result |-> Returned(<<>>)]
    ELSE LET ctx == detect_context(text, offset)
         IN  [context |-> ctx, result |-> select_items(cell[1], ctx)]

(***************************************************************************)
(* format_sql.  The external parser at its boundary: a text is a sequence  *)
(* of lexemes, each a whole statement, the delimiter ";" or a word the     *)
(* dialect cannot parse.  Parser::parse_sql skips delimiters, fails on a   *)
(* word it cannot parse and on a statement that follows another without a  *)
(* delimiter, and returns the statements in input order.                   *)
(***************************************************************************)
Unparseable == "SELCT"

RECURSIVE ParseStatements(_, _, _)
\* the loop of parse_sql from lexeme k on
ParseStatements(text, k, expecting_statement_delimiter) ==
    IF k > Len(text) THEN [ok |-> TRUE, statements |-> <<>>, e |-> <<>>]
    ELSE IF text[k] = ";" THEN ParseStatements(text, k + 1, FALSE)
    ELSE IF expecting_statement_delimiter
         THEN [ok |-> FALSE, statements |-> <<>>,
               e |-> <<"sql parser error: Expected: end of statement, found: ", text[k]>>]
    ELSE IF text[k] = Unparseable
         THEN [ok |-> FALSE, statements |-> <<>>,
               e |-> <<"sql parser error: Expected: an SQL statement, found: ", text[k]>>]
    ELSE LET rest == ParseStatements(text, k + 1, TRUE)
         IN  IF rest.ok
             THEN [ok |-> TRUE, statements |-> <<text[k]>> \o rest.statements, e |-> <<>>]
             ELSE rest

parse_sql(text) == ParseStatements(text, 1, FALSE)

\* format!("{s:#}"): the statement printed with upper-case keywords
pretty(statement) ==
    CASE statement = "select 1" -> "SELECT 1"
      [] statement = "select x from t" -> "SELECT x\nFROM t"
      [] OTHER -> statement

FormatResult(success, formatted, error) ==
    [success |-> success, formatted |-> formatted, error |-> error]

\* mutant: an empty statement list is formatted like any other
format_sql_without_empty_check(text) ==
    LET parsed == parse_sql(text)
    IN  IF parsed.ok
        THEN FormatResult(TRUE,
                Some(join([k \in 1..Len(parsed.statements) |->
                            <<pretty(parsed.statements[k])>>], <<";\n">>)),
                None)
        ELSE FormatResult(FALSE, None, Some(parsed.e))

\* the FormatResult that is serialized and returned
format_sql(text) ==
    LET parsed == parse_sql(text)
    IN  IF parsed.ok
        THEN IF parsed.statements = <<>>
             THEN FormatResult(FALSE, None, Some(<<"No SQL statements found">>))
             ELSE FormatResult(TRUE,
                    Some(join([k \in 1..Len(parsed.statements) |->
                                <<pretty(parsed.statements[k])>>], <<";\n">>)),
                    None)
        ELSE FormatResult(FALSE, None, Some(parsed.e))

(***************************************************************************)
(* Inputs: texts over small vocabularies, and cursor offsets up to MaxOver *)
(* beyond the end of the text.                                             *)
(***************************************************************************)
Texts(vocabularies, n) == UNION {SeqsUpTo(V, n) : V \in vocabularies}

Offsets(text) == 0..(Len(text) + MaxOver)

CallVocabularies ==
    { {"ENGINE", "=", "FORMAT", "SETTINGS"},
      {"SELECT", "FROM", "WHERE"},
      {"ORDER", "BY", "x"},
      {"CREATE", "TABLE", "(", ")"} }

EngineVocabularies ==
    { {"ENGINE", "=", "FORMAT", "SETTINGS", " "},
      {"ENGINE", "=", "SELECT", "FROM", "WHERE"},
      {"engine", "=", "ORDER", "BY", "'"},
      {"ENGINE", "=", "CREATE", "TABLE", "("} }

ClauseVocabularies ==
    { {"SELECT", "FROM", "WHERE", "ORDER", "BY"},
      {"WHERE", "HAVING", "GROUP", "BY", "LIMIT"},
      {"FROM", "JOIN", "GROUP", "ORDER", "BY"},
      {"SELECT", "FROM", "FORMAT", "SETTINGS"},
      {"select", "from", "where", ","},
      {"SELECT", "WHERE", "CREATE", "TABLE", "("},
      {"ENGINE", "=", "WHERE", "'"} }

FormatVocabularies ==
    { {"ENGINE", "=", "FORMAT", "SETTINGS", " "},
      {"SELECT", "FROM", "FORMAT", "SETTINGS", "x"},
      {"WHERE", "ORDER", "BY", "format", "SETTINGS"} }

CreateVocabularies ==
    { {"CREATE", "TABLE", "(", ")", "x"},
      {"CREATE", "table", "(", ")", "BY"} }

(***************************************************************************)
(* State machine of the calls the host makes.                              *)
(***************************************************************************)
NoPayload == [decodable |-> FALSE, data |-> EmptyCatalog, e |-> <<>>]

Init ==
    /\ COMPLETION_CACHE = <<>>
    /\ op = "none"
    /\ json = NoPayload
    /\ sql \in Texts(CallVocabularies, MaxCallLen)
    /\ cursor_offset = 0
    /\ context = "NotRun"
    /\ ret = Returned(<<>>)
    /\ calls = <<>>

InitCompletionData(payload) ==
    LET call == init_completion_data(COMPLETION_CACHE, payload)
    IN  /\ COMPLETION_CACHE' = call.cell
        /\ op' = "init_completion_data"
        /\ json' = payload
        /\ context' = "NotRun"
        /\ cursor_offset' = 0
        /\ ret' = Returned(call.result)
        /\ UNCHANGED <<sql, calls>>

GetCompletions(offset) ==
    LET call == get_completions(COMPLETION_CACHE, sql, offset)
    IN  /\ op' = "get_completions"
        /\ cursor_offset' = offset
        /\ context' = call.context
        /\ json' = NoPayload
        /\ ret' = call.result
        /\ UNCHANGED <<COMPLETION_CACHE, sql, calls>>

Next ==
    \/ \E payload \in Payloads : InitCompletionData(payload)
    \/ \E offset \in Offsets(sql) : GetCompletions(offset)

Spec == Init /\ [][Next]_vars

(***************************************************************************)
(* detect_context as a pure function of (sql, cursor_offset).              *)
(***************************************************************************)
InitDetect(vocabularies) ==
    /\ COMPLETION_CACHE = <<>>
    /\ op = "none"
    /\ json = NoPayload
    /\ sql \in Texts(vocabularies, MaxLen)
    /\ cursor_offset \in Offsets(sql)
    /\ context = "NotRun"
    /\ ret = Returned(<<>>)
    /\ calls = <<>>

DetectContext ==
    /\ op = "none"
    /\ op' = "detect_context"
    /\ context' = detect_context(sql, cursor_offset)
    /\ UNCHANGED <<COMPLETION_CACHE, json, sql, cursor_offset, ret, calls>>

NextDetect == DetectContext

SpecEngine == InitDetect(EngineVocabularies) /\ [][NextDetect]_vars
SpecFormat == InitDetect(FormatVocabularies) /\ [][NextDetect]_vars
SpecClause == InitDetect(ClauseVocabularies) /\ [][NextDetect]_vars
SpecCreate == InitDetect(CreateVocabularies) /\ [][NextDetect]_vars

(***************************************************************************)
(* format_sql as a pure function of the text.                              *)
(***************************************************************************)
FormatSqlVocabularies == { {"select 1", "select x from t", "SELECT 2", ";", Unparseable} }

InitFormatSql ==
    /\ COMPLETION_CACHE = <<>>
    /\ op = "none"
    /\ json = NoPayload
    /\ sql \in Texts(FormatSqlVocabularies, MaxLen)
    /\ cursor_offset = 0
    /\ context = "NotRun"
    /\ ret = Returned(<<>>)
    /\ calls = <<>>

FormatSql ==
    /\ op = "none"
    /\ op' = "format_sql"
    /\ ret' = Returned(format_sql(sql))
    /\ UNCHANGED <<COMPLETION_CACHE, json, sql, cursor_offset, context, calls>>

NextFormatSql == FormatSql

SpecFormatSql == InitFormatSql /\ [][NextFormatSql]_vars

(***************************************************************************)
(* The cache builder as a function of the catalog: one init_completion_data*)
(* call on an empty cell, over a family of catalogs.                       *)
(***************************************************************************)
InitBuild(payloads) ==
    /\ COMPLETION_CACHE = <<>>
    /\ op = "none"
    /\ json \in payloads
    /\ sql = <<>>
    /\ cursor_offset = 0
    /\ context = "NotRun"
    /\ ret = Returned(<<>>)
    /\ calls = <<>>

BuildCompletionCache ==
    /\ op = "none"
    /\ InitCompletionData(json)

NextBuild == BuildCompletionCache

Decodable(catalog) == [decodable |-> TRUE, data |-> catalog, e |-> <<>>]

\* function lists in which names may differ by letter case only and aliases
\* point at records before or after them, at other aliases or at nothing
AliasNames == {<<"f">>, <<"F">>, <<"g">>, <<"G">>}

AliasTargets == {<<"f">>, <<"g">>}

\* a function proper with or without a description, or an alias of another
\* name, which has no text of its own
FunctionRecords ==
    {Function(name, FALSE, None, <<>>,
              IF documented THEN <<"about", " ">> \o name ELSE <<>>) :
        name \in AliasNames, documented \in BOOLEAN}
    \cup {Function(names[1], FALSE, Some(names[2]), <<>>, <<>>) :
            names \in {n \in AliasNames \X AliasTargets : n[1] # n[2]}}

\* a catalog lists each name once
DistinctNames(records) ==
    \A i, j \in 1..Len(records) : records[i].name = records[j].name => i = j

AliasPayloads ==
    {Decodable([EmptyCatalog EXCEPT !.functions = fs]) :
        fs \in {l \in SeqsUpTo(FunctionRecords, MaxFuncs) : DistinctNames(l)}}

SpecAlias == InitBuild(AliasPayloads) /\ [][NextBuild]_vars

\* catalogs in which the names of a function, a keyword, a data type and a
\* setting vary over names that begin with a digit, a letter or an underscore,
\* the function and the data type being an alias or not
BandNames == {<<"a">>, <<"Z", "z">>, <<"0">>, <<"_">>}

BandCatalogs ==
    {[Catalog1 EXCEPT
        !.functions =
            << Function(n[1], FALSE, IF a[1] THEN Some(<<"n", "o", "w">>) ELSE None,
                        <<>>, <<>>) >> \o Catalog1.functions,
        !.keywords = <<n[2]>> \o Catalog1.keywords,
        !.data_types =
            << [name |-> n[3],
                alias_to |-> IF a[2] THEN Some(<<"I", "n", "t">>) ELSE None] >>
                \o Catalog1.data_types,
        !.settings =
            << [name |-> n[4], setting_type |-> <<"Bool">>, description |-> <<>>] >>
                \o Catalog1.settings] :
        n \in BandNames \X BandNames \X BandNames \X BandNames,
        a \in BOOLEAN \X BOOLEAN}

BandPayloads == {Decodable(c) : c \in BandCatalogs}

SpecBands == InitBuild(BandPayloads) /\ [][NextBuild]_vars

\* catalogs whose eight lists are prefixes of lists that are not in
\* alphabetical order, every combination of lengths up to MaxPerCategory
PoolNames == << <<"z">>, <<"a">>, <<"m">>, <<"b">> >>

Prefix(list, n) == SubSeq(list, 1, IF n <= Len(list) THEN n ELSE Len(list))

PoolCatalog ==
    [functions |->
        [k \in 1..4 |->
            Function(PoolNames[k], k = 2, IF k = 3 THEN Some(<<"z">>) ELSE None,
                     <<>>, <<>>)],
     keywords |-> PoolNames,
     data_types |->
        [k \in 1..4 |->
            [name |-> PoolNames[k], alias_to |-> IF k = 2 THEN Some(<<"z">>) ELSE None]],
     table_engines |-> [k \in 1..4 |-> [name |-> PoolNames[k]]],
     formats |->
        [k \in 1..4 |-> [name |-> PoolNames[k], is_input |-> TRUE, is_output |-> k = 1]],
     table_functions |->
        [k \in 1..4 |-> [name |-> PoolNames[k], description |-> <<>>]],
     aggregate_combinators |-> <<>>,
     settings |->
        [k \in 1..4 |->
            [name |-> PoolNames[k], setting_type |-> <<"Bool">>, description |-> <<>>]],
     merge_tree_settings |->
        [k \in 1..4 |->
            [name |-> PoolNames[k], setting_type |-> <<"UInt64">>, description |-> <<>>]]]

BlockCatalogs ==
    {[functions |-> Prefix(PoolCatalog.functions, n[1]),
      keywords |-> Prefix(PoolCatalog.keywords, n[2]),
      data_types |-> Prefix(PoolCatalog.data_types, n[3]),
      table_engines |-> Prefix(PoolCatalog.table_engines, n[4]),
      formats |-> Prefix(PoolCatalog.formats, n[5]),
      table_functions |-> Prefix(PoolCatalog.table_functions, n[6]),
      aggregate_combinators |-> <<>>,
      settings |-> Prefix(PoolCatalog.settings, n[7]),
      merge_tree_settings |-> Prefix(PoolCatalog.merge_tree_settings, n[8])] :
        n \in [1..8 -> 0..MaxPerCategory]}

BlockPayloads == {Decodable(c) : c \in BlockCatalogs}

SpecBlocks == InitBuild(BlockPayloads) /\ [][NextBuild]_vars

(***************************************************************************)
(* Concurrent callers.  Every thread makes one call; the steps of a call   *)
(* that touch COMPLETION_CACHE (OnceLock::set, OnceLock::get, reading      *)
(* through the reference get returned) are separate atomic steps, and the  *)
(* local computation between them belongs to the step that follows it.     *)
(***************************************************************************)
Threads == 1..MaxThreads

Malformed ==
    [decodable |-> FALSE, data |-> EmptyCatalog, e |-> <<"expected value at line 1 column 1">>]

ConcurrentPayloads == {Decodable(Catalog1), Decodable(Catalog2), Malformed}

ConcurrentQueries ==
    { [sql |-> <<"SELECT">>, cursor_offset |-> 1],
      [sql |-> <<"ENGINE", "=">>, cursor_offset |-> 2],
      [sql |-> <<"ENGINE">>, cursor_offset |-> 2] }

StartedCalls ==
    {[op |-> "init_completion_data", pc |-> "from_str", json |-> payload,
      sql |-> <<>>, cursor_offset |-> 0, context |-> "NotRun", ret |-> Returned(<<>>)] :
        payload \in ConcurrentPayloads}
    \cup {[op |-> "get_completions", pc |-> "get", json |-> NoPayload,
            sql |-> q.sql, cursor_offset |-> q.cursor_offset, context |-> "NotRun",
            ret |-> Returned(<<>>)] :
            q \in ConcurrentQueries}

InitConcurrent ==
    /\ COMPLETION_CACHE = <<>>
    /\ op = "none"
    /\ json = NoPayload
    /\ sql = <<>>
    /\ cursor_offset = 0
    /\ context = "NotRun"
    /\ ret = Returned(<<>>)
    /\ calls \in [Threads -> StartedCalls]

\* init_completion_data, line 648: decoding; the Err arm returns at once
InitFromStr(t) ==
    LET call == calls[t]
        decoded == from_str(call.json)
    IN  /\ call.op = "init_completion_data"
        /\ call.pc = "from_str"
        /\ calls' =
              [calls EXCEPT ![t] =
                IF decoded.ok
                THEN [call EXCEPT !.pc = "set"]
                ELSE [call EXCEPT
                        !.pc = "done",
                        !.ret = Returned(InitResult(FALSE,
                                    Some(<<"Failed to parse ClickHouse data: ">>
                                            \o decoded.e)))]]
        /\ UNCHANGED <<COMPLETION_CACHE, op, json, sql, cursor_offset, context, ret>>

\* lines 650-660: the cache is built and offered to the cell
InitSet(t) ==
    LET call == calls[t]
        set == OnceLockSet(COMPLETION_CACHE,
                           build_completion_cache(from_str(call.json).data))
    IN  /\ call.op = "init_completion_data"
        /\ call.pc = "set"
        /\ COMPLETION_CACHE' = set.cell
        /\ calls' =
              [calls EXCEPT ![t] =
                [call EXCEPT
                    !.pc = "done",
                    !.ret = IF set.ok
                            THEN Returned(InitResult(TRUE, None))
                            ELSE Returned(InitResult(FALSE, Some(AlreadyInitialized)))]]
        /\ UNCHANGED <<op, json, sql, cursor_offset, context, ret>>

\* get_completions, lines 677-679: COMPLETION_CACHE.get()
GetLoad(t) ==
    LET call == calls[t]
    IN  /\ call.op = "get_completions"
        /\ call.pc = "get"
        /\ calls' =
              [calls EXCEPT ![t] =
                IF COMPLETION_CACHE = <<>>
                THEN [call EXCEPT !.pc = "done", !.ret = Returned(<<>>)]
                ELSE [call EXCEPT !.pc = "detect_context"]]
        /\ UNCHANGED <<COMPLETION_CACHE, op, json, sql, cursor_offset, context, ret>>

\* line 681: context detection, local to the thread
GetDetectContext(t) ==
    LET call == calls[t]
        ctx == detect_context(call.sql, call.cursor_offset)
    IN  /\ call.op = "get_completions"
        /\ call.pc = "detect_context"
        /\ calls' =
              [calls EXCEPT ![t] =
                IF ctx = "Panic"
                THEN [call EXCEPT !.pc = "done", !.context = ctx, !.ret = Panicked]
                ELSE [call EXCEPT !.pc = "collect", !.context = ctx]]
        /\ UNCHANGED <<COMPLETION_CACHE, op, json, sql, cursor_offset, context, ret>>

\* lines 683-709: the lists are read through the reference to the cell's value
GetCollect(t) ==
    LET call == calls[t]
    IN  /\ call.op = "get_completions"
        /\ call.pc = "collect"
        /\ calls' =
              [calls EXCEPT ![t] =
                [call EXCEPT
                    !.pc = "done",
                    !.ret = select_items(COMPLETION_CACHE[1], call.context)]]
        /\ UNCHANGED <<COMPLETION_CACHE, op, json, sql, cursor_offset, context, ret>>

NextConcurrent ==
    \E t \in Threads :
        \/ InitFromStr(t)
        \/ InitSet(t)
        \/ GetLoad(t)
        \/ GetDetectContext(t)
        \/ GetCollect(t)

SpecConcurrent == InitConcurrent /\ [][NextConcurrent]_vars

(***************************************************************************)
(* Claims about the cache lifecycle and the dispatcher, checked under Spec.*)
(***************************************************************************)
Initialized == COMPLETION_CACHE # <<>>

AlreadyInitializedResult == Returned(InitResult(FALSE, Some(AlreadyInitialized)))

\* C1: first writer wins.  Once a decodable payload has been installed, every
\* later init_completion_data call with a decodable payload returns
\* success=false with the already-initialized error, no call changes the cache,
\* and the get_completions query answered last has the same answer afterwards.
FirstWriterWins ==
    [][Initialized =>
        /\ COMPLETION_CACHE' = COMPLETION_CACHE
        /\ (op' = "init_completion_data" /\ json'.decodable
                => ret' = AlreadyInitializedResult)
        /\ op = "get_completions"
                => get_completions(COMPLETION_CACHE', sql, cursor_offset).result = ret]_vars

\* C1 witness: a decodable payload of another catalog was rejected and the
\* cache built by the first call is still the one installed.
SecondInitRejected ==
    /\ op = "init_completion_data"
    /\ json.decodable
    /\ ret = AlreadyInitializedResult
    /\ Initialized
    /\ COMPLETION_CACHE # <<build_completion_cache(json.data)>>

\* C2: while the cache is not built get_completions returns the empty list for
\* every text and offset without running context detection (so it cannot fail);
\* once the cache is built it runs detect_context on its arguments and returns
\* one of the cache's lists, or fails exactly when detect_context fails.
EmptyUntilInitialized ==
    op = "get_completions" =>
        /\ ~Initialized => context = "NotRun" /\ ret = Returned(<<>>)
        /\ Initialized =>
            /\ context = detect_context(sql, cursor_offset)
            /\ (ret.outcome = "Panicked") = (context = "Panic")
            /\ ret.outcome = "Returned" =>
                 LET cache == COMPLETION_CACHE[1]
                 IN  ret.value \in
                        {cache.table_engines, cache.formats, cache.functions,
                         cache.functions \o cache.logical_operators,
                         cache.functions \o cache.order_by_keywords,
                         cache.table_functions, cache.data_types,
                         cache.settings, cache.all}

\* C2 witness: an uninitialised get_completions call answered [] on an input
\* on which detect_context itself would not return.
EmptyWithoutDetection ==
    /\ op = "get_completions"
    /\ ~Initialized
    /\ ret = Returned(<<>>)
    /\ detect_context(sql, cursor_offset) = "Panic"

\* C3: a payload that fails to decode yields success=false with an error
\* message and leaves the cache as it was; right after such a failure on an
\* empty cache get_completions still returns [] and a decodable payload is
\* installed with success=true.
DecodeFailureIsLocal ==
    [][/\ (op' = "init_completion_data" /\ ~json'.decodable)
            => /\ ret'.outcome = "Returned"
               /\ ret'.value.success = FALSE
               /\ ret'.value.error # None
               /\ ret' # AlreadyInitializedResult
               /\ COMPLETION_CACHE' = COMPLETION_CACHE
       /\ (op = "init_completion_data" /\ ~json.decodable /\ ~Initialized)
            => /\ op' = "get_completions" => ret' = Returned(<<>>)
               /\ (op' = "init_completion_data" /\ json'.decodable)
                    => /\ ret' = Returned(InitResult(TRUE, None))
                       /\ COMPLETION_CACHE' = <<build_completion_cache(json'.data)>>
      ]_vars

\* C3 witness: a malformed payload was refused and the cache is still empty.
DecodeFailedCacheEmpty ==
    /\ op = "init_completion_data"
    /\ ~json.decodable
    /\ ret.value.success = FALSE
    /\ ~Initialized

Labels(items) == [k \in 1..Len(items) |-> items[k].label]

LogicalOperatorLabels ==
    << <<"AND">>, <<"OR">>, <<"NOT">>, <<"IN">>, <<"BETWEEN">>, <<"LIKE">>,
       <<"IS NULL">>, <<"IS NOT NULL">> >>

OrderByModifierLabels == << <<"ASC">>, <<"DESC">>, <<"NULLS FIRST">>, <<"NULLS LAST">> >>

\* the list is `functions` followed by keyword items carrying exactly `labels`
FunctionsThen(items, functions, labels) ==
    /\ Len(items) = Len(functions) + Len(labels)
    /\ SubSeq(items, 1, Len(functions)) = functions
    /\ Labels(SubSeq(items, Len(functions) + 1, Len(items))) = labels
    /\ \A k \in (Len(functions) + 1)..Len(items) : items[k].kind = "Keyword"

\* the catalog whose cache is installed
InstalledCatalog ==
    CHOOSE c \in Catalogs : COMPLETION_CACHE = <<build_completion_cache(c)>>

Before(text, offset) ==
    IF offset <= Len(text) THEN SubSeq(text, 1, offset) ELSE text

Significant(text, offset) == SelectSeq(Before(text, offset), LAMBDA l : l # " ")

Tokenizes(text, offset) == \A k \in 1..Len(Before(text, offset)) : text[k] # "'"

Detected == op = "detect_context"

\* C4: an offset beyond the end of the text does not make detect_context fail
\* and gives the result of the offset at the end of the text.
OffsetBeyondEndIsClamped ==
    (Detected /\ cursor_offset > Len(sql)) =>
        /\ context # "Panic"
        /\ context = detect_context(sql, Len(sql))

\* lexeme l is the word `keyword`, in any letter case
Kw(l, keyword) == l \notin {" ", "=", "(", ")", ","} /\ to_ascii_uppercase(l) = keyword

KwIn(l, keywords) == \E keyword \in keywords : Kw(l, keyword)

Sig == Significant(sql, cursor_offset)

\* rules a and b on the significant lexemes
EndsWithEngineEq(sig) ==
    Len(sig) >= 2 /\ sig[Len(sig)] = "=" /\ Kw(sig[Len(sig) - 1], "ENGINE")

EndsWithEngineEqValue(sig) ==
    Len(sig) >= 3 /\ sig[Len(sig) - 1] = "=" /\ Kw(sig[Len(sig) - 2], "ENGINE")

\* the first lexeme after the cursor that is not a blank is "="
EqFollowsCursor ==
    \E k \in (cursor_offset + 1)..Len(sql) :
        sql[k] = "=" /\ \A h \in (cursor_offset + 1)..(k - 1) : sql[h] = " "

\* rule c is entered: ENGINE is the last significant lexeme
EndsWithEngine(sig) == Len(sig) >= 1 /\ Kw(sig[Len(sig)], "ENGINE")

\* C6: when the significant tokens before the cursor end with ENGINE = or with
\* ENGINE = <one token>, the result is Engine, whatever that token is and
\* whatever precedes ENGINE.
EngineRulesWin ==
    (Detected /\ Tokenizes(sql, cursor_offset)) =>
        ((EndsWithEngineEq(Sig) \/ EndsWithEngineEqValue(Sig)) => context = "Engine")

\* C6 witness: ENGINE = FORMAT (or SETTINGS) before the cursor was classified
\* Engine, not Format or Settings.
EngineBeatsFormat ==
    /\ Detected
    /\ EndsWithEngineEqValue(Sig)
    /\ KwIn(Sig[Len(Sig)], {"FORMAT", "SETTINGS"})
    /\ context = "Engine"

\* C7: when no Engine rule applies, a last significant token FORMAT gives
\* Format and a last significant token SETTINGS gives Settings, whatever clause
\* keywords precede it.
FormatAndSettingsRules ==
    (/\ Detected
     /\ Tokenizes(sql, cursor_offset)
     /\ Sig # <<>>
     /\ ~EndsWithEngineEq(Sig)
     /\ ~EndsWithEngineEqValue(Sig)) =>
        /\ Kw(Sig[Len(Sig)], "FORMAT") => context = "Format"
        /\ Kw(Sig[Len(Sig)], "SETTINGS") => context = "Settings"

\* C7 witness: FORMAT after a clause keyword that the backward scan would
\* have matched was classified Format.
FormatAfterClause ==
    /\ Detected
    /\ Len(Sig) >= 2
    /\ Kw(Sig[Len(Sig)], "FORMAT")
    /\ KwIn(Sig[Len(Sig) - 1], {"FROM", "WHERE", "SELECT"})
    /\ context = "Format"

\* no keyword of `guard` occurs strictly after position i
NoneAfter(sig, i, guard) == \A k \in (i + 1)..Len(sig) : ~KwIn(sig[k], guard)

\* the four keyword clause rules at position i, "" when none matches there
KeywordClauseAt(sig, i) ==
    CASE KwIn(sig[i], {"WHERE", "HAVING"})
            /\ NoneAfter(sig, i, {"ORDER", "GROUP", "LIMIT", "FORMAT", "SETTINGS"})
            -> "WhereClause"
      [] Kw(sig[i], "BY") /\ i > 1 /\ KwIn(sig[i - 1], {"ORDER", "GROUP"})
            /\ NoneAfter(sig, i, {"LIMIT", "FORMAT", "SETTINGS", "HAVING", "WHERE"})
            -> "OrderByClause"
      [] KwIn(sig[i], {"FROM", "JOIN"})
            /\ NoneAfter(sig, i, {"WHERE", "GROUP", "ORDER", "LIMIT", "FORMAT", "SETTINGS"})
            -> "FromClause"
      [] Kw(sig[i], "SELECT") /\ NoneAfter(sig, i, {"FROM"})
            -> "SelectClause"
      [] OTHER -> ""

\* nesting depth after position k, counted from the parenthesis at position p
DepthFrom(sig, p, k) ==
    1 + Cardinality({h \in (p + 1)..k : sig[h] = "("})
      - Cardinality({h \in (p + 1)..k : sig[h] = ")"})

\* the parenthesis at p is not closed before the cursor
StaysOpen(sig, p) == \A k \in (p + 1)..Len(sig) : DepthFrom(sig, p, k) > 0

\* an opening parenthesis with TABLE, and before it CREATE, somewhere earlier
AfterCreateTable(sig, p) ==
    /\ sig[p] = "("
    /\ \E t \in 1..(p - 1) : Kw(sig[t], "TABLE") /\ \E c \in 1..(t - 1) : Kw(sig[c], "CREATE")

\* the keyword clause rules together with the parenthesis rule
ClauseOrColumnsAt(sig, i) ==
    IF KeywordClauseAt(sig, i) # "" THEN KeywordClauseAt(sig, i)
    ELSE IF AfterCreateTable(sig, i) /\ StaysOpen(sig, i) THEN "ColumnDefinition"
    ELSE ""

\* the largest element of a non-empty set of positions
MaxOf(positions) == CHOOSE i \in positions : \A h \in positions : h <= i

\* the context of the rightmost position at which a keyword clause rule
\* matches, else Default
RightmostKeyword(sig) ==
    LET hits == {i \in 1..Len(sig) : KeywordClauseAt(sig, i) # ""}
    IN  IF hits = {} THEN "Default" ELSE KeywordClauseAt(sig, MaxOf(hits))

\* the same with the parenthesis rule among the rules
RightmostOfFive(sig) ==
    LET hits == {i \in 1..Len(sig) : ClauseOrColumnsAt(sig, i) # ""}
    IN  IF hits = {} THEN "Default" ELSE ClauseOrColumnsAt(sig, MaxOf(hits))

\* the call gets past the Engine, Format and Settings rules
ReachesScan ==
    /\ Detected
    /\ Tokenizes(sql, cursor_offset)
    /\ Sig # <<>>
    /\ ~EndsWithEngineEq(Sig)
    /\ ~EndsWithEngineEqValue(Sig)
    /\ ~(EndsWithEngine(Sig) /\ (cursor_offset > Len(sql) \/ EqFollowsCursor))
    /\ ~KwIn(Sig[Len(Sig)], {"FORMAT", "SETTINGS"})

\* C8 as stated: past the last-token rules the result is the context of the
\* rightmost position at which one of the four keyword clause rules matches with
\* its guard satisfied, and Default when none does, when there is no significant
\* token or when tokenizing fails.
RightmostKeywordClause ==
    /\ ReachesScan => context = RightmostKeyword(Sig)
    /\ (Detected /\ (~Tokenizes(sql, cursor_offset) \/ Sig = <<>>)) => context = "Default"

\* C8 as amended: the scan has a fifth rule at each position, the unclosed
\* opening parenthesis after CREATE ... TABLE, which gives ColumnDefinition;
\* Default is the result when none of the five matches anywhere.
RightmostClause ==
    /\ ReachesScan => context = RightmostOfFive(Sig)
    /\ (Detected /\ (~Tokenizes(sql, cursor_offset) \/ Sig = <<>>)) => context = "Default"

\* C8 witness: a position whose guard fails was skipped and an earlier
\* position decided: a WHERE with ORDER after it is passed over and the
\* SELECT before it gives SelectClause.
GuardFailedScanContinued ==
    /\ ReachesScan
    /\ \E i \in 1..Len(Sig) :
            /\ Kw(Sig[i], "WHERE")
            /\ ~NoneAfter(Sig, i, {"ORDER"})
    /\ context = "SelectClause"

\* SELECT ... FROM ... WHERE/HAVING at positions s < f < w, and no keyword of
\* `excluded` after w
SelectFromWhereThen(sig, w, excluded) ==
    /\ KwIn(sig[w], {"WHERE", "HAVING"})
    /\ \E f \in 1..(w - 1) : Kw(sig[f], "FROM") /\ \E s0 \in 1..(f - 1) : Kw(sig[s0], "SELECT")
    /\ NoneAfter(sig, w, excluded)

SelectOnlyWithoutFrom ==
    (Detected /\ context = "SelectClause") =>
        \E i \in 1..Len(Sig) : Kw(Sig[i], "SELECT") /\ NoneAfter(Sig, i, {"FROM"})

\* C9 as stated: SelectClause is returned only if some SELECT has no FROM after
\* it, and SELECT ... FROM ... WHERE (or HAVING) followed only by tokens other
\* than ORDER, GROUP, LIMIT, FORMAT, SETTINGS is classified WhereClause.
NoRegressionAfterWhere ==
    /\ SelectOnlyWithoutFrom
    /\ (Detected /\ Tokenizes(sql, cursor_offset)) =>
            \A w \in 1..Len(Sig) :
                SelectFromWhereThen(Sig, w, {"ORDER", "GROUP", "LIMIT", "FORMAT", "SETTINGS"})
                    => context = "WhereClause"

\* C9 as amended: the tokens after WHERE (or HAVING) are also not SELECT, FROM
\* or JOIN and not an unclosed opening parenthesis after CREATE ... TABLE, and
\* the call gets past the Engine rules.
NoRegressionAfterPlainWhere ==
    /\ SelectOnlyWithoutFrom
    /\ ReachesScan =>
            \A w \in 1..Len(Sig) :
                (/\ SelectFromWhereThen(Sig, w, {"ORDER", "GROUP", "LIMIT", "FORMAT",
                                                 "SETTINGS", "SELECT", "FROM", "JOIN"})
                 /\ \A p \in (w + 1)..Len(Sig) :
                        ~(AfterCreateTable(Sig, p) /\ StaysOpen(Sig, p)))
                    => context = "WhereClause"

\* C9 witness: SELECT FROM WHERE with a token after it was classified WhereClause.
WhereKeptAfterMoreTokens ==
    /\ Detected
    /\ \E w \in 1..(Len(Sig) - 1) :
            SelectFromWhereThen(Sig, w, {"ORDER", "GROUP", "LIMIT", "FORMAT",
                                         "SETTINGS", "SELECT", "FROM", "JOIN"})
    /\ context = "WhereClause"

\* the parenthesis at p is the first one after CREATE ... TABLE
ColumnListOpener(sig, p) ==
    /\ sig[p] = "("
    /\ \E t \in 1..(p - 1) :
            /\ Kw(sig[t], "TABLE")
            /\ \E c \in 1..(t - 1) : Kw(sig[c], "CREATE")
            /\ \A k \in (t + 1)..(p - 1) : sig[k] # "("

\* C10: ColumnDefinition is returned only when the column-list opener of a
\* CREATE ... TABLE ... ( statement is not yet closed before the cursor; a later
\* parenthesis, after the column list was closed, does not give it.
ColumnDefinitionOnlyInOpenColumnList ==
    (Detected /\ context = "ColumnDefinition") =>
        \E p \in 1..Len(Sig) : ColumnListOpener(Sig, p) /\ StaysOpen(Sig, p)

\* C14: when the last significant token before the cursor is ENGINE and no
\* ENGINE = rule has applied, the result is Engine exactly when the text after
\* the cursor, leading blanks dropped, begins with "=", and otherwise it is what
\* the later rules give; for every other text before the cursor the result
\* does not depend on the text after the cursor: it is the result for the text
\* cut at the cursor.
RemainderDecidesOnlyAfterEngine ==
    Detected =>
        /\ (Tokenizes(sql, cursor_offset) /\ EndsWithEngine(Sig)
                /\ ~EndsWithEngineEqValue(Sig)) =>
                /\ (context = "Engine") = EqFollowsCursor
                /\ ~EqFollowsCursor => context = RightmostOfFive(Sig)
        /\ ~(Tokenizes(sql, cursor_offset) /\ EndsWithEngine(Sig)) =>
                context = detect_context(Before(sql, cursor_offset),
                                         Len(Before(sql, cursor_offset)))

(***************************************************************************)
(* Claims about the cache builder, checked on catalogs of one family.      *)
(***************************************************************************)
Built == op = "init_completion_data" /\ Initialized

\* the header line of the documentation of alias record func
AliasHeader(func) ==
    <<"**">> \o func.name \o <<"** _(", "alias for", " ", Backtick>>
        \o func.alias_to[1] \o <<Backtick, ")_">>

\* the records of the list other than the alias at position a that are named
\* as its target in any letter case and have documentation of their own
DocumentedTargets(fs, a) ==
    {k \in 1..Len(fs) \ {a} :
        /\ name_eq_ignore_ascii_case(fs[k].name, fs[a].alias_to[1])
        /\ build_function_documentation(fs[k]) # None}

\* C11: every function record with aliasTo = X yields an item whose
\* documentation contains "alias for"; when another record named X (in any
\* letter case) with documentation of its own exists in the function list, the
\* text built from that record's own fields (not from its alias target)
\* follows the header; otherwise the documentation is the header alone.
AliasShowsTargetDocumentation ==
    Built =>
        LET fs == json.data.functions
            items == COMPLETION_CACHE[1].functions
        IN  \A k \in 1..Len(fs) :
                fs[k].alias_to # None =>
                    LET doc == items[k].documentation
                        targets == DocumentedTargets(fs, k)
                    IN  /\ doc # None
                        /\ \E i \in 1..Len(doc[1].value) : doc[1].value[i] = "alias for"
                        /\ IF targets = {}
                           THEN doc[1].value = AliasHeader(fs[k])
                           ELSE \E t \in targets :
                                    doc[1].value =
                                        AliasHeader(fs[k]) \o <<"\n\n">>
                                            \o build_function_documentation(fs[t])[1].value

\* ASCII order of the characters that occur in sort keys
AsciiOrder ==
    <<"0", "1", "2", "3", "4", "5", "6", "7", "8", "9",
      "A", "B", "C", "D", "E", "F", "G", "H", "I", "J", "K", "L", "M",
      "N", "O", "P", "Q", "R", "S", "T", "U", "V", "W", "X", "Y", "Z", "_",
      "a", "b", "c", "d", "e", "f", "g", "h", "i", "j", "k", "l", "m",
      "n", "o", "p", "q", "r", "s", "t", "u", "v", "w", "x", "y", "z">>

Byte(c) == CHOOSE i \in 1..Len(AsciiOrder) : AsciiOrder[i] = c

IsCharacter(c) == \E i \in 1..Len(AsciiOrder) : AsciiOrder[i] = c

\* a precedes b in lexicographic order: a is a proper prefix of b, or at the
\* first position where they differ a has the smaller character (a fragment
\* that is not one character, as in the label of a synthesized item, orders
\* nothing)
LexLess(a, b) ==
    \/ Len(a) < Len(b) /\ SubSeq(b, 1, Len(a)) = a
    \/ \E i \in 1..Len(a) :
            /\ i <= Len(b)
            /\ SubSeq(a, 1, i - 1) = SubSeq(b, 1, i - 1)
            /\ IsCharacter(a[i]) /\ IsCharacter(b[i])
            /\ Byte(a[i]) < Byte(b[i])

\* the sort keys of the list are band followed by the name given at each position
Banded(items, names, band) ==
    /\ Len(items) = Len(names)
    /\ \A k \in 1..Len(items) : items[k].sort_text = Some(band \o names[k])

Names(records) == [k \in 1..Len(records) |-> records[k].name]

ItemsOf(items, records, alias) ==
    LET at == {k \in 1..Len(records) : (records[k].alias_to # None) = alias}
    IN  {items[k] : k \in at}

Range(items) == {items[k] : k \in 1..Len(items)}

\* C12: the sort key of every item of the built cache is its band followed by
\* its name, the band fixed by the category (keyword 0_, function 1_, data type
\* 2_, table engine 3_, format 4_, table function 5_, setting 6_, function or
\* data-type alias 9_); so every keyword's key precedes every setting's key and
\* every alias's key follows every other item's key, whatever the names are.
SortKeyBands ==
    Built =>
        LET data == json.data
            cache == COMPLETION_CACHE[1]
            aliases == ItemsOf(cache.functions, data.functions, TRUE)
                        \cup ItemsOf(cache.data_types, data.data_types, TRUE)
            everything == Range(cache.all) \cup Range(cache.logical_operators)
                            \cup Range(cache.order_by_keywords)
        IN  /\ Banded(cache.keywords, data.keywords, <<"0", "_">>)
            /\ Banded(cache.logical_operators, LogicalOperatorLabels, <<"0", "_">>)
            /\ Banded(cache.order_by_keywords, OrderByModifierLabels, <<"0", "_">>)
            /\ \A k \in 1..Len(data.functions) :
                    cache.functions[k].sort_text =
                        Some((IF data.functions[k].alias_to # None
                              THEN <<"9", "_">> ELSE <<"1", "_">>)
                             \o data.functions[k].name)
            /\ \A k \in 1..Len(data.data_types) :
                    cache.data_types[k].sort_text =
                        Some((IF data.data_types[k].alias_to # None
                              THEN <<"9", "_">> ELSE <<"2", "_">>)
                             \o data.data_types[k].name)
            /\ Banded(cache.table_engines, Names(data.table_engines), <<"3", "_">>)
            /\ Banded(cache.formats, Names(data.formats), <<"4", "_">>)
            /\ Banded(cache.table_functions, Names(data.table_functions), <<"5", "_">>)
            /\ Banded(cache.settings,
                      Names(data.settings \o data.merge_tree_settings), <<"6", "_">>)
            /\ \A x, y \in everything :
                    (x.kind = "Keyword" /\ y.kind = "Setting")
                        => LexLess(x.sort_text[1], y.sort_text[1])
            /\ \A x \in aliases : \A y \in everything \ aliases :
                    LexLess(y.sort_text[1], x.sort_text[1])

\* C12 witness: a cache in which a keyword's name is greater than a setting's
\* name and an alias's name is smaller than a keyword's name.
KeywordNamedAfterSetting ==
    /\ Built
    /\ \E k \in 1..Len(json.data.keywords) : \E t \in 1..Len(json.data.settings) :
            /\ LexLess(json.data.settings[t].name, json.data.keywords[k])
            /\ LexLess(COMPLETION_CACHE[1].keywords[k].sort_text[1],
                       COMPLETION_CACHE[1].settings[t].sort_text[1])
    /\ \E f \in 1..Len(json.data.functions) : \E k \in 1..Len(json.data.keywords) :
            /\ json.data.functions[f].alias_to # None
            /\ LexLess(json.data.functions[f].name, json.data.keywords[k])
            /\ LexLess(COMPLETION_CACHE[1].keywords[k].sort_text[1],
                       COMPLETION_CACHE[1].functions[f].sort_text[1])

\* the items at positions from + 1 .. from + Len(names) of the list are of
\* the given kinds and carry the names in their order
Block(items, from, names, kinds) ==
    /\ Len(items) >= from + Len(names)
    /\ \A k \in 1..Len(names) :
            items[from + k].label = names[k] /\ items[from + k].kind \in kinds

\* C15: the list "all" is the items of the functions, keywords, data types,
\* table engines, formats, table functions, settings and merge-tree settings,
\* in this order of blocks and in the order of the catalog inside each block;
\* its length is the sum of the lengths of the catalog's lists, so it holds no
\* synthesized item; the settings list is the settings followed by the
\* merge-tree settings.
AllIsConcatenation ==
    Built =>
        LET data == json.data
            cache == COMPLETION_CACHE[1]
            f == Len(data.functions)
            k == f + Len(data.keywords)
            d == k + Len(data.data_types)
            e == d + Len(data.table_engines)
            o == e + Len(data.formats)
            t == o + Len(data.table_functions)
            s == t + Len(data.settings)
            m == s + Len(data.merge_tree_settings)
        IN  /\ Len(cache.all) = m
            /\ Block(cache.all, 0, Names(data.functions), {"Function", "AggregateFunction"})
            /\ Block(cache.all, f, data.keywords, {"Keyword"})
            /\ Block(cache.all, k, Names(data.data_types), {"DataType"})
            /\ Block(cache.all, d, Names(data.table_engines), {"TableEngine"})
            /\ Block(cache.all, e, Names(data.formats), {"Format"})
            /\ Block(cache.all, o, Names(data.table_functions), {"TableFunction"})
            /\ Block(cache.all, t, Names(data.settings), {"Setting"})
            /\ Block(cache.all, s, Names(data.merge_tree_settings), {"Setting"})
            /\ \A i \in (t + 1)..m :
                    cache.all[i].detail[1][1] =
                        (IF i <= s THEN "(setting: " ELSE "(MergeTree setting: ")
            /\ cache.all = cache.functions \o cache.keywords \o cache.data_types
                            \o cache.table_engines \o cache.formats
                            \o cache.table_functions \o cache.settings
            /\ cache.settings = SubSeq(cache.all, t + 1, m)
            /\ Len(cache.logical_operators) = 8
            /\ Len(cache.order_by_keywords) = 4

\* C15 witness: a cache built from a catalog with two records in every list,
\* none of them in alphabetical order.
EveryBlockUnsorted ==
    /\ Built
    /\ Len(COMPLETION_CACHE[1].all) = 16
    /\ Labels(COMPLETION_CACHE[1].all) =
            [i \in 1..16 |-> IF i % 2 = 1 THEN <<"z">> ELSE <<"a">>]

(***************************************************************************)
(* Claims about format_sql.                                                *)
(***************************************************************************)
Formatted == op = "format_sql"

\* the lexemes of the text that are not delimiters
StatementsOf(text) == SelectSeq(text, LAMBDA l : l # ";")

\* the parser rejects the text: it holds a word that is no statement, or two
\* statements with no delimiter between them
Rejected(text) ==
    \/ \E k \in 1..Len(text) : text[k] = Unparseable
    \/ \E k \in 1..(Len(text) - 1) : text[k] # ";" /\ text[k + 1] # ";"

\* value is the statements in order, each printed, with ";\n" between two of them
JoinedInOrder(value, statements) ==
    /\ Len(value) = 2 * Len(statements) - 1
    /\ \A k \in 1..Len(statements) : value[2 * k - 1] = pretty(statements[k])
    /\ \A k \in 1..(Len(statements) - 1) : value[2 * k] = ";\n"

\* C13: format_sql reports a parse error as success=false with the error and
\* no formatted text; a text without statements as success=false with the
\* no-statements-found error; n >= 1 statements as success=true with no error
\* and the printed statements in input order joined by ";" and a newline,
\* without a trailing separator.  success=true never comes with an error and
\* success=false never with a formatted text.
FormatSqlShapes ==
    Formatted =>
        LET result == ret.value
            statements == StatementsOf(sql)
        IN  /\ ret.outcome = "Returned"
            /\ result.success => result.error = None /\ result.formatted # None
            /\ ~result.success => result.formatted = None /\ result.error # None
            /\ Rejected(sql) =>
                    /\ ~result.success
                    /\ result.error # Some(<<"No SQL statements found">>)
            /\ (~Rejected(sql) /\ statements = <<>>) =>
                    result = FormatResult(FALSE, None, Some(<<"No SQL statements found">>))
            /\ (~Rejected(sql) /\ statements # <<>>) =>
                    /\ result.success
                    /\ JoinedInOrder(result.formatted[1], statements)

\* C13 witness: a text of several statements, one of them changed by printing,
\* with delimiters before, between and after them, was formatted.
SeveralStatementsFormatted ==
    /\ Formatted
    /\ ret.value.success
    /\ Len(StatementsOf(sql)) >= 2
    /\ sql[1] = ";"
    /\ sql[Len(sql)] = ";"
    /\ \E k \in 1..Len(sql) : sql[k] # ";" /\ pretty(sql[k]) # sql[k]

(***************************************************************************)
(* Claims about concurrent callers.                                        *)
(***************************************************************************)
IsInit(call) == call.op = "init_completion_data"

IsGet(call) == call.op = "get_completions"

Done(call) == call.pc = "done"

\* the init calls among cs that returned success=true
Winners(cs) == {t \in Threads : IsInit(cs[t]) /\ Done(cs[t]) /\ cs[t].ret.value.success}

\* the cache built from the payload of an init call
CacheOf(call) == build_completion_cache(call.json.data)

\* what holds of the cell and the calls cs in every state
WriteOnceState(cell, cs) ==
    /\ Cardinality(Winners(cs)) <= 1
    /\ (cell # <<>>) = (Winners(cs) # {})
    /\ \A t \in Winners(cs) : cell = <<CacheOf(cs[t])>>
    /\ \A t \in Threads \ Winners(cs) :
            (IsInit(cs[t]) /\ Done(cs[t])) =>
                IF cs[t].json.decodable
                THEN cs[t].ret = AlreadyInitializedResult
                ELSE /\ cs[t].ret.value.success = FALSE
                     /\ cs[t].ret.value.error # None
                     /\ cs[t].ret # AlreadyInitializedResult
    /\ \A t \in Threads :
            (IsGet(cs[t]) /\ cs[t].pc \in {"detect_context", "collect"}) => cell # <<>>
    /\ \A t \in Threads :
            (IsGet(cs[t]) /\ Done(cs[t]) /\ cs[t].ret.outcome = "Returned") =>
                \/ cs[t].context = "NotRun" /\ cs[t].ret.value = <<>>
                \/ /\ cs[t].context = detect_context(cs[t].sql, cs[t].cursor_offset)
                   /\ \E w \in Winners(cs) :
                        cs[t].ret = select_items(CacheOf(cs[w]), cs[t].context)

\* C16: under every interleaving of the steps of concurrent calls at most one
\* init_completion_data call returns success=true and the cache kept is the one
\* it built; every other init call with a decodable payload returns the
\* already-initialized failure; a get_completions call returns [] having seen
\* no cache, or a list of the complete cache of the winning call; no step of a
\* get_completions call changes the cache, and a cache once set never changes.
WriteOnceUnderInterleaving ==
    [][/\ WriteOnceState(COMPLETION_CACHE', calls')
       /\ \A t \in Threads :
            (IsGet(calls[t]) /\ calls'[t] # calls[t])
                => COMPLETION_CACHE' = COMPLETION_CACHE
       /\ Initialized => COMPLETION_CACHE' = COMPLETION_CACHE]_vars

\* C16 witness: two init calls with different catalogs and a get_completions
\* call ran together; the init call of the later thread won, the other was
\* rejected, and the get call returned a list of the winner's cache.
LaterThreadWon ==
    /\ calls # <<>>
    /\ \E a, b, g \in Threads :
            /\ a < b
            /\ IsInit(calls[a]) /\ Done(calls[a])
            /\ calls[a].ret = AlreadyInitializedResult
            /\ b \in Winners(calls)
            /\ calls[a].json # calls[b].json
            /\ IsGet(calls[g]) /\ Done(calls[g])
            /\ calls[g].ret = Returned(CacheOf(calls[b]).functions)
            /\ calls[g].ret.value # <<>>

====
